---- MODULE Spec2Model ----
(***************************************************************************)
(* The thought store, the input orchestrator (processInput), the animation *)
(* tick (updateThoughts) and the speech recognizer wiring of src/App.tsx,  *)
(* as one state machine, with the relay handler of the same file beside it.*)
(*                                                                         *)
(* React is modelled by what it does to the component's state: a setState  *)
(* call records the new value (or queues the updater function) and marks a *)
(* render as pending; a render applies the queued thought updates one by   *)
(* one and then commits, at which point the event handlers created by that *)
(* render (and the values they close over) replace the previous ones.      *)
(* Handlers attached once at mount keep the closure of the first render.   *)
(* inputText and micError only decide what is displayed; the text a typed  *)
(* submit carries is an input of handleSubmit.                             *)
(*                                                                         *)
(* Units: positions and velocities are in 1/16 px, opacity is in 1/120000, *)
(* time is in ms, so that every quantity of the source is an integer.      *)
(***************************************************************************)
EXTENDS Integers, Sequences, FiniteSets, TLC

\* ------------------------------------------------------------------ bounds
\* Spec: processInput invocations that get past the guard, animation frames.
MaxCalls == 2
MaxTicks == 1
\* StoreSpec: the same two budgets.
MaxStoreCalls == 3
MaxStoreTicks == 1
\* LiveSpec: the same two budgets.
MaxLiveCalls == 2
MaxLiveTicks == 1
\* SubmitSpec: the same two budgets.
MaxSubmitCalls == 2
MaxSubmitTicks == 1
\* SceneSpec: the same two budgets.
MaxSceneCalls == 2
MaxSceneTicks == 2
\* DriftSpec: the same two budgets.
MaxDriftCalls == 2
MaxDriftTicks == 6
\* RelaySpec: requests the relay receives.
MaxRequests == 2
\* Capacity of the store (imported from ./constants, value not in src/).
MAX_THOUGHTS == 2

\* ------------------------------------------------------------------ inputs
\* Texts are sequences of characters. A specification fixes, in env, the
\* sets its inputs are drawn from:
\*   inputs     the texts a submit or a transcript can carry
\*   responses  what generateThought can resolve with
\*   draws      the pairs of Math.random() draws for vx and vy:
\*              (Math.random() - 0.5) * 0.25 lies in [-0.125, 0.125) px, that
\*              is in [-2, 2) in units of 1/16 px
\*   viewports  the sizes the window can have
\* Viewports (window.innerWidth, window.innerHeight), in px.
Viewports == { [w |-> 1000, h |-> 800] }
FullEnv ==
    [ inputs    |-> { <<>>, <<" ">>, <<"h">> },
      responses |-> { <<" ">>, <<"w">> },
      draws     |-> { [vx |-> -2, vy |-> 1], [vx |-> 1, vy |-> -2] },
      viewports |-> Viewports ]
StoreEnv ==
    [ inputs    |-> { <<"h">> },
      responses |-> { <<"w">> },
      draws     |-> { [vx |-> -2, vy |-> 1] },
      viewports |-> Viewports ]
LiveEnv ==
    [ inputs    |-> { <<"h">> },
      responses |-> { <<"w">> },
      draws     |-> { [vx |-> -2, vy |-> 1] },
      viewports |-> Viewports ]
SubmitEnv ==
    [ inputs    |-> { <<>>, <<" ">>, <<"h">> },
      responses |-> { <<"w">> },
      draws     |-> { [vx |-> -2, vy |-> 1] },
      viewports |-> Viewports ]
\* Windows so small that the spawn point (w / 2, h / 2 - 80) lies half a pixel
\* inside the band of the tick's margins (361 x 521), or above it (361 x 500).
SmallViewports == { [w |-> 361, h |-> 521], [w |-> 361, h |-> 500] }
DriftEnv ==
    [ inputs    |-> { <<"h">> },
      responses |-> { <<"w">> },
      draws     |-> { [vx |-> -2, vy |-> 1] },
      viewports |-> SmallViewports ]
\* Time between two animation frames, in ms.
FrameDurations == { 21000 }

\* ------------------------------------------------------------------ text
IsSpace(c) == c = " "

RECURSIVE trimStart(_)
trimStart(s) ==
    IF s # <<>> /\ IsSpace(Head(s)) THEN trimStart(Tail(s)) ELSE s

RECURSIVE trimEnd(_)
trimEnd(s) ==
    IF s # <<>> /\ IsSpace(s[Len(s)]) THEN trimEnd(SubSeq(s, 1, Len(s) - 1)) ELSE s

\* String.prototype.trim
trim(s) == trimEnd(trimStart(s))

\* JavaScript truthiness of a string: the empty string is falsy.
Truthy(s) == s # <<>>

\* A text that is empty or holds white space only.
IsBlank(s) == \A i \in 1..Len(s) : IsSpace(s[i])

Min(a, b) == IF a < b THEN a ELSE b
Max(a, b) == IF a > b THEN a ELSE b

VARIABLES
    scene,          \* useState<Scene>: latest value set
    isProcessing,   \* useState(false): latest value set
    isListening,    \* useState(false): latest value set
    thoughts,       \* useState<Thought[]>: value as of the updates applied so far
    queue,          \* setThoughts calls not yet applied by a render
    rendered,       \* the state values the handlers of the committed render close over
    renderPending,  \* a setState was called since the last render began
    rendering,      \* a render is applying the queue (nothing else runs meanwhile)
    thoughtsRef,    \* thoughtsRef.current
    requestRef,     \* requestRef.current (0: undefined)
    rafPending,     \* animation frame callbacks requested and not yet run or cancelled
    recState,       \* the SpeechRecognition object's session state
    calls,          \* the processInput invocations awaiting a promise
    callsLeft,      \* processInput invocations the specification still lets past the guard
    ticksLeft,      \* animation frames the specification still lets run
    env,            \* the sets the inputs are drawn from
    blankSubmit,    \* the path ("text", "voice") of the blank submit just handled, or "none"
    now,            \* Date.now()
    viewport,       \* window.innerWidth / window.innerHeight
    mounted,        \* the component is mounted
    relay           \* the relay (the serverless handler): the requests it has received

vars == << scene, isProcessing, isListening, thoughts, queue, rendered,
           renderPending, rendering, thoughtsRef, requestRef, rafPending, recState,
           calls, callsLeft, ticksLeft, env, blankSubmit, now, viewport, mounted,
           relay >>

\* Groups of variables, for the UNCHANGED clauses.
storeVars == << thoughts, queue, thoughtsRef >>
frameVars == << requestRef, rafPending >>
speechVars == << isListening, recState >>
\* fixedVars: what no handler, callback or continuation of the component changes.
fixedVars == << env, viewport, mounted, relay >>

\* ------------------------------------------------------------------ store
Ids(s) == { s[i].id : i \in 1..Len(s) }

\* The object addThought builds (App.tsx 127-138).
NewThought(id, text, method, vx, vy) ==
    [ id        |-> id,
      text      |-> text,
      x         |-> viewport.w * 8,
      y         |-> viewport.h * 8 - 80 * 16,
      vx        |-> vx,
      vy        |-> vy,
      opacity   |-> 0,
      scale     |-> 1,
      createdAt |-> now,
      method    |-> method ]

\* Mutants of PushFront: the slice forgotten; the slice taken from the end.
PushFront_NoSlice(prev, t) == <<t>> \o prev

PushFront_SliceEnd(prev, t) ==
    LET s == <<t>> \o prev
    IN SubSeq(s, Len(s) - Min(Len(s), MAX_THOUGHTS) + 1, Len(s))

\* The updater addThought hands to setThoughts:
\*   prev => [newThought, ...prev].slice(0, MAX_THOUGHTS)
PushFront(prev, t) ==
    SubSeq(<<t>> \o prev, 1, Min(Len(prev) + 1, MAX_THOUGHTS))

\* ------------------------------------------------------------------ tick
\* padding = 180 px on the left, right and top, 300 px at the bottom.
FlipsX(t) == t.x + t.vx < 180 * 16 \/ t.x + t.vx > viewport.w * 16 - 180 * 16
FlipsY(t) == t.y + t.vy < 180 * 16 \/ t.y + t.vy > viewport.h * 16 - 300 * 16

\* index === 0 ? 1 : Math.max(0.45, 0.9 - (age / 120000) - (index * 0.1))
baseFade(t, index, at) ==
    IF index = 0 THEN 120000
    ELSE Max(54000, 108000 - (at - t.createdAt) - index * 12000)

\* What `t.vx *= -1` / `t.vy *= -1` leave in the object the callback was given.
Reflected(t) ==
    [t EXCEPT !.vx = IF FlipsX(t) THEN -t.vx ELSE t.vx,
              !.vy = IF FlipsY(t) THEN -t.vy ELSE t.vy]

\* The object the map callback returns: { ...t, x: nx, y: ny, opacity: baseFade }.
UpdateThought(t, index, at) ==
    [Reflected(t) EXCEPT !.x = t.x + t.vx,
                         !.y = t.y + t.vy,
                         !.opacity = baseFade(t, index, at)]

\* Mutant of UpdateAll: the last thought is left out of the result.
UpdateAll_DropsLast(s, at) ==
    [ i \in 1..(Len(s) - 1) |-> UpdateThought(s[i], i - 1, at) ]

\* thoughtsRef.current.map((t, index) => ...): index is 0-based in the source.
UpdateAll(s, at) == [ i \in 1..Len(s) |-> UpdateThought(s[i], i - 1, at) ]

\* The callback mutates vx / vy of the objects it is given. Those objects are
\* shared with every array that holds them (the state array, arrays queued for
\* the state), so the mutation shows there too. An object is identified by its
\* value.
Aliased(s) ==
    [ i \in 1..Len(s) |->
        IF \E j \in 1..Len(thoughtsRef) : thoughtsRef[j] = s[i]
        THEN Reflected(s[i]) ELSE s[i] ]

AliasedUpdate(u) ==
    IF u.kind = "set" THEN [u EXCEPT !.value = Aliased(u.value)] ELSE u

\* requestAnimationFrame returns a handle that no pending request holds.
FreshHandle(used) == CHOOSE h \in 1..(Cardinality(used) + 1) : h \notin used

\* ------------------------------------------------------------------ init
InitialRender == [ scene |-> "LANDING", isProcessing |-> FALSE,
                   isListening |-> FALSE ]

\* The state after the first render and its effects; nCalls, nTicks and e are
\* the specification's budgets and input sets.
InitWith(nCalls, nTicks, e) ==
    /\ scene = "LANDING"
    /\ isProcessing = FALSE
    /\ isListening = FALSE
    /\ thoughts = <<>>
    /\ queue = <<>>
    /\ rendered = InitialRender
    /\ renderPending = FALSE
    /\ rendering = FALSE
    /\ thoughtsRef = <<>>
    /\ requestRef = 0
    /\ rafPending = {}
    /\ recState = "idle"
    /\ calls = <<>>
    /\ callsLeft = nCalls
    /\ ticksLeft = nTicks
    /\ env = e
    /\ blankSubmit = "none"
    /\ now = 0
    /\ viewport \in e.viewports
    /\ mounted = TRUE
    /\ relay = <<>>

Init == InitWith(MaxCalls, MaxTicks, FullEnv)

\* ------------------------------------------------------------------ render
\* React starts the render it scheduled for updates made outside a discrete
\* event (a promise continuation, an animation frame, a recognizer event).
\* An unmounted component is not rendered and gets no DOM event.
RenderBegin ==
    /\ mounted
    /\ ~rendering
    /\ renderPending
    /\ rendering' = TRUE
    /\ renderPending' = FALSE
    /\ blankSubmit' = "none"
    /\ UNCHANGED << scene, isProcessing, rendered, calls, callsLeft, ticksLeft, now,
                    storeVars, frameVars, speechVars, fixedVars >>

\* The render applies the next queued setThoughts call. An updater function
\* runs here, with the state as of the updates before it as `prev`.
RenderUpdate ==
    /\ rendering
    /\ queue # <<>>
    /\ LET u == Head(queue) IN
         IF u.kind = "insert"
         THEN LET next == PushFront(thoughts, u.thought) IN
                /\ thoughts' = next
                /\ thoughtsRef' = next
         ELSE /\ thoughts' = u.value
              /\ UNCHANGED thoughtsRef
    /\ queue' = Tail(queue)
    /\ blankSubmit' = "none"
    /\ UNCHANGED << scene, isProcessing, rendered, renderPending, rendering, calls,
                    callsLeft, ticksLeft, now, frameVars, speechVars, fixedVars >>

\* The effect of lines 117-124, run when the committed scene changed: the
\* previous effect's cleanup, then the new effect.
SceneEffect ==
    IF rendered.scene = scene
    THEN UNCHANGED << requestRef, rafPending >>
    ELSE LET kept == IF requestRef # 0 THEN rafPending \ {requestRef} ELSE rafPending
             h == FreshHandle(kept \cup {requestRef})
         IN IF scene = "CHAT"
            THEN /\ requestRef' = h
                 /\ rafPending' = kept \cup {h}
            ELSE /\ UNCHANGED requestRef
                 /\ rafPending' = kept

\* The render commits: the handlers of this render replace the previous ones.
RenderCommit ==
    /\ rendering
    /\ queue = <<>>
    /\ rendered' = [ scene |-> scene, isProcessing |-> isProcessing,
                     isListening |-> isListening ]
    /\ SceneEffect
    /\ rendering' = FALSE
    /\ blankSubmit' = "none"
    /\ UNCHANGED << scene, isProcessing, renderPending, calls, callsLeft, ticksLeft,
                    now, storeVars, speechVars, fixedVars >>

\* ------------------------------------------------------------------ scene
\* Mutant of unmount: the cleanup does not cancel the pending frame.
unmount_NoCancel ==
    /\ mounted
    /\ ~rendering
    /\ mounted' = FALSE
    /\ blankSubmit' = "none"
    /\ UNCHANGED << scene, isProcessing, rendered, renderPending, rendering, calls,
                    callsLeft, ticksLeft, now, env, viewport, relay, storeVars,
                    frameVars, speechVars >>

\* The component is unmounted: the cleanup of the effect of lines 117-124
\* runs, `if (requestRef.current) cancelAnimationFrame(requestRef.current)`.
unmount ==
    /\ mounted
    /\ ~rendering
    /\ mounted' = FALSE
    /\ rafPending' = IF requestRef # 0 THEN rafPending \ {requestRef} ELSE rafPending
    /\ blankSubmit' = "none"
    /\ UNCHANGED << scene, isProcessing, rendered, renderPending, rendering, calls,
                    callsLeft, ticksLeft, now, env, viewport, relay, storeVars,
                    requestRef, speechVars >>

\* handleEnter: a click, a discrete event, so React renders before the next
\* event.
handleEnter ==
    /\ mounted
    /\ ~rendering
    /\ rendered.scene = "LANDING"
    /\ scene' = "TRANSITIONING"
    /\ rendering' = TRUE
    /\ renderPending' = FALSE
    /\ blankSubmit' = "none"
    /\ UNCHANGED << isProcessing, rendered, calls, callsLeft, ticksLeft, now,
                    storeVars, frameVars, speechVars, fixedVars >>

\* The setTimeout callback of handleEnter.
EnterTimeout ==
    /\ ~rendering
    /\ scene = "TRANSITIONING"
    /\ scene' = "CHAT"
    /\ renderPending' = TRUE
    /\ blankSubmit' = "none"
    /\ UNCHANGED << isProcessing, rendered, rendering, calls, callsLeft, ticksLeft,
                    now, storeVars, frameVars, speechVars, fixedVars >>

\* ------------------------------------------------------------------ tick
updateThoughts ==
    /\ ~rendering
    /\ ticksLeft > 0
    /\ \E h \in rafPending, dt \in FrameDurations :
         LET at == now + dt
             updated == UpdateAll(thoughtsRef, at)
             rest == rafPending \ {h}
             h2 == FreshHandle(rest \cup {h})
         IN /\ now' = at
            /\ thoughtsRef' = updated
            /\ thoughts' = Aliased(thoughts)
            /\ queue' = Append([ i \in 1..Len(queue) |-> AliasedUpdate(queue[i]) ],
                               [ kind |-> "set", value |-> updated ])
            /\ renderPending' = TRUE
            /\ requestRef' = h2
            /\ rafPending' = rest \cup {h2}
    /\ ticksLeft' = ticksLeft - 1
    /\ blankSubmit' = "none"
    /\ UNCHANGED << scene, isProcessing, rendered, rendering, calls, callsLeft,
                    speechVars, fixedVars >>

\* ------------------------------------------------------------------ orchestrator
\* Mutant of Accepts: the text tested without trim().
Accepts_NoTrim(text, busy) == ~(~Truthy(text) \/ busy)

\* The guard of processInput: `if (!text.trim() || isProcessing) return`, with
\* isProcessing the value the calling closure holds.
Accepts(text, busy) == ~(~Truthy(trim(text)) \/ busy)

\* The isProcessing a handler created by the committed render closes over.
RenderedIsProcessing == rendered.isProcessing

\* The isProcessing held by the processInput that recognition.onresult calls:
\* the effect of lines 29-70 runs once, so it is the first render's.
MountedIsProcessing == InitialRender.isProcessing

\* Sequence s without its i-th element.
RemoveAt(s, i) == SubSeq(s, 1, i - 1) \o SubSeq(s, i + 1, Len(s))

\* processInput(text, mode) called from a closure that holds `busy`, up to
\* its return or its first await: the guard, the state updates and the call
\* of generateThought(text). `calls` holds the invocations that have not
\* returned; n numbers them.
processInput(text, mode, busy) ==
    IF Accepts(text, busy)
    THEN /\ callsLeft > 0
         /\ callsLeft' = callsLeft - 1
         /\ isProcessing' = TRUE
         /\ calls' = Append(calls, [ n |-> callsLeft, text |-> text, mode |-> mode,
                                     pc |-> "gen", response |-> <<>> ])
         /\ blankSubmit' = IF IsBlank(text) THEN mode ELSE "none"
    ELSE /\ blankSubmit' = IF IsBlank(text) THEN mode ELSE "none"
         /\ UNCHANGED << isProcessing, calls, callsLeft >>

\* handleSubmit: a submit event of the form, a discrete event, so React
\* renders the updates made before the next event.
handleSubmit ==
    /\ mounted
    /\ ~rendering
    /\ rendered.scene = "CHAT"
    /\ \E text \in env.inputs :
         /\ processInput(text, "text", RenderedIsProcessing)
         /\ IF Accepts(text, RenderedIsProcessing)
            THEN /\ rendering' = TRUE
                 /\ renderPending' = FALSE
            ELSE UNCHANGED << rendering, renderPending >>
    /\ UNCHANGED << scene, rendered, ticksLeft, now, storeVars, frameVars,
                    speechVars, fixedVars >>

\* addThought: builds the thought and calls setThoughts with the updater. The
\* id (Math.random in the source) is unique: the number of the invocation.
\* React runs the updater at once when the mounted component has no update pending,
\* and otherwise (or anyway) during the next render.
addThought(id, text, method) ==
    \E d \in env.draws :
      LET t == NewThought(id, text, method, d.vx, d.vy) IN
        \/ /\ queue' = Append(queue, [ kind |-> "insert", thought |-> t ])
           /\ UNCHANGED thoughtsRef
        \/ /\ mounted
           /\ ~renderPending
           /\ queue = <<>>
           /\ thoughtsRef' = PushFront(thoughts, t)
           /\ queue' = << [ kind |-> "set", value |-> PushFront(thoughts, t) ] >>

\* generateThought resolves with r: lines 155-159, and 163 in text mode.
\* In voice mode speakThought(r) is called and awaited.
generateResolved ==
    /\ ~rendering
    /\ \E i \in 1..Len(calls), r \in env.responses :
         /\ calls[i].pc = "gen"
         /\ addThought(calls[i].n, r, calls[i].mode)
         /\ IF calls[i].mode = "voice"
            THEN /\ calls' = [calls EXCEPT ![i].pc = "speak", ![i].response = r]
                 /\ UNCHANGED isProcessing
            ELSE /\ calls' = RemoveAt(calls, i)
                 /\ isProcessing' = FALSE
    /\ renderPending' = TRUE
    /\ blankSubmit' = "none"
    /\ UNCHANGED << scene, thoughts, rendered, rendering, callsLeft, ticksLeft, now,
                    frameVars, speechVars, fixedVars >>

\* generateThought rejects: the catch block logs, the finally block runs.
\* (generateThought is not in src/; that it settles with a text or fails is
\* its contract.)
generateRejected ==
    /\ ~rendering
    /\ \E i \in 1..Len(calls) :
         /\ calls[i].pc = "gen"
         /\ calls' = RemoveAt(calls, i)
    /\ isProcessing' = FALSE
    /\ renderPending' = TRUE
    /\ blankSubmit' = "none"
    /\ UNCHANGED << scene, rendered, rendering, callsLeft, ticksLeft, now,
                    storeVars, frameVars, speechVars, fixedVars >>

\* Mutant of speakSettled: setIsProcessing(false) not reached when the
\* awaited speakThought settles.
speakSettled_BusyKept ==
    /\ ~rendering
    /\ \E i \in 1..Len(calls) :
         /\ calls[i].pc = "speak"
         /\ calls' = RemoveAt(calls, i)
    /\ renderPending' = TRUE
    /\ blankSubmit' = "none"
    /\ UNCHANGED << scene, isProcessing, rendered, rendering, callsLeft, ticksLeft,
                    now, storeVars, frameVars, speechVars, fixedVars >>

\* speakThought settles: resolved, or rejected (caught and logged); the
\* finally block runs either way.
speakSettled ==
    /\ ~rendering
    /\ \E i \in 1..Len(calls) :
         /\ calls[i].pc = "speak"
         /\ calls' = RemoveAt(calls, i)
    /\ isProcessing' = FALSE
    /\ renderPending' = TRUE
    /\ blankSubmit' = "none"
    /\ UNCHANGED << scene, rendered, rendering, callsLeft, ticksLeft, now,
                    storeVars, frameVars, speechVars, fixedVars >>

\* ------------------------------------------------------------------ speech
\* toggleListening: a click on the microphone button, a discrete event.
\* start() throws when the recognizer is not idle.
toggleListening ==
    /\ mounted
    /\ ~rendering
    /\ rendered.scene = "CHAT"
    /\ IF rendered.isListening
       THEN /\ recState' = IF recState \in { "starting", "listening" }
                           THEN "stopping" ELSE recState
            /\ UNCHANGED << isListening, rendering, renderPending >>
       ELSE IF recState = "idle"
            THEN /\ recState' = "starting"
                 /\ rendering' = TRUE
                 /\ renderPending' = FALSE
                 /\ UNCHANGED isListening
            ELSE /\ isListening' = FALSE
                 /\ recState' = IF recState \in { "starting", "listening" }
                                THEN "stopping" ELSE recState
                 /\ rendering' = TRUE
                 /\ renderPending' = FALSE
    /\ blankSubmit' = "none"
    /\ UNCHANGED << scene, isProcessing, rendered, calls, callsLeft, ticksLeft, now,
                    storeVars, frameVars, fixedVars >>

onstart ==
    /\ ~rendering
    /\ recState = "starting"
    /\ recState' = "listening"
    /\ isListening' = TRUE
    /\ renderPending' = TRUE
    /\ blankSubmit' = "none"
    /\ UNCHANGED << scene, isProcessing, rendered, rendering, calls, callsLeft,
                    ticksLeft, now, storeVars, frameVars, fixedVars >>

\* recognition.onresult: the final transcript of the session (continuous is
\* false, so the session ends after it). It calls the processInput of the
\* first render; the updates are made outside a discrete event.
onresult ==
    /\ ~rendering
    /\ recState \in { "listening", "stopping" }
    /\ recState' = "ending"
    /\ \E transcript \in env.inputs :
         /\ processInput(transcript, "voice", MountedIsProcessing)
         /\ renderPending' = (renderPending \/ Accepts(transcript, MountedIsProcessing))
    /\ UNCHANGED << scene, isListening, rendered, rendering, ticksLeft, now,
                    storeVars, frameVars, fixedVars >>

onerror ==
    /\ ~rendering
    /\ recState \in { "starting", "listening", "stopping" }
    /\ recState' = "ending"
    /\ isListening' = FALSE
    /\ renderPending' = TRUE
    /\ blankSubmit' = "none"
    /\ UNCHANGED << scene, isProcessing, rendered, rendering, calls, callsLeft,
                    ticksLeft, now, storeVars, frameVars, fixedVars >>

onend ==
    /\ ~rendering
    /\ recState \in { "listening", "stopping", "ending" }
    /\ recState' = "idle"
    /\ isListening' = FALSE
    /\ renderPending' = TRUE
    /\ blankSubmit' = "none"
    /\ UNCHANGED << scene, isProcessing, rendered, rendering, calls, callsLeft,
                    ticksLeft, now, storeVars, frameVars, fixedVars >>

\* A transcript of some recognizer session: onresult with the session's state
\* left out. The microphone button exists in the CHAT scene only, and nothing
\* keeps a session from being started while an utterance is in flight.
transcript ==
    /\ ~rendering
    /\ rendered.scene = "CHAT"
    /\ \E text \in env.inputs :
         /\ processInput(text, "voice", MountedIsProcessing)
         /\ renderPending' = (renderPending \/ Accepts(text, MountedIsProcessing))
    /\ UNCHANGED << scene, rendered, rendering, ticksLeft, now, storeVars,
                    frameVars, speechVars, fixedVars >>

\* ------------------------------------------------------------------ relay
\* The handler of lines 278-319, one record per request it has received:
\*   method   req.method
\*   pc       "fetch": awaiting fetch(...); "json": awaiting response.json();
\*            "done": answered
\*   called   the provider call was made
\*   reply    what the provider replied (meaningful from pc = "json" on)
\*   status, text, error   the answer: res.status(...).json({ text } / { error })
Methods == { "GET", "POST" }

\* The provider's replies: its HTTP status is 2xx or not (ok), its body parses
\* as JSON or not (json), and choices[0].message.content is there or not.
NoContent == [ present |-> FALSE, text |-> <<>> ]
ProviderReplies ==
    { [ ok |-> TRUE, json |-> TRUE, content |-> [ present |-> TRUE, text |-> <<"w">> ] ],
      [ ok |-> TRUE, json |-> TRUE, content |-> [ present |-> TRUE, text |-> <<>> ] ],
      [ ok |-> TRUE, json |-> TRUE, content |-> NoContent ],
      [ ok |-> FALSE, json |-> TRUE, content |-> NoContent ],
      [ ok |-> FALSE, json |-> FALSE, content |-> NoContent ] }

NoReply == [ ok |-> FALSE, json |-> FALSE, content |-> NoContent ]

\* res.status(code).json({ text }) and res.status(code).json({ error })
Answered(r, code, text) ==
    [r EXCEPT !.pc = "done", !.status = code, !.text = text, !.error = ""]
AnsweredError(r, code, error) ==
    [r EXCEPT !.pc = "done", !.status = code, !.text = <<>>, !.error = error]

\* A request arrives: lines 282-310, up to the await of fetch.
handler ==
    /\ Len(relay) < MaxRequests
    /\ \E method \in Methods :
         LET r == [ method |-> method, pc |-> "fetch", called |-> FALSE,
                    failed |-> FALSE, reply |-> NoReply, status |-> 0,
                    text |-> <<>>, error |-> "" ]
         IN relay' = Append(relay,
                IF method # "POST"
                THEN AnsweredError(r, 405, "Method not allowed")
                ELSE [r EXCEPT !.called = TRUE])
    /\ UNCHANGED << scene, isProcessing, isListening, thoughts, queue, rendered,
                    renderPending, rendering, thoughtsRef, requestRef, rafPending,
                    recState, calls, callsLeft, ticksLeft, env, blankSubmit, now,
                    viewport, mounted >>

\* The steps of a request leave the component alone.
RelayStep(i, r) ==
    /\ relay' = [relay EXCEPT ![i] = r]
    /\ UNCHANGED << scene, isProcessing, isListening, thoughts, queue, rendered,
                    renderPending, rendering, thoughtsRef, requestRef, rafPending,
                    recState, calls, callsLeft, ticksLeft, env, blankSubmit, now,
                    viewport, mounted >>

\* fetch resolves, with any HTTP status: the handler goes on to
\* `await response.json()` (line 311) without looking at response.ok.
fetchResolved ==
    \E i \in 1..Len(relay), reply \in ProviderReplies :
      /\ relay[i].pc = "fetch"
      /\ RelayStep(i, [relay[i] EXCEPT !.pc = "json", !.reply = reply])

\* fetch rejects (a transport failure): the catch block, line 317.
fetchRejected ==
    \E i \in 1..Len(relay) :
      /\ relay[i].pc = "fetch"
      /\ RelayStep(i, AnsweredError([relay[i] EXCEPT !.failed = TRUE], 500, "LLM failure"))

\* response.json() resolves: lines 313-315,
\* text: data.choices?.[0]?.message?.content ?? "".
jsonResolved ==
    \E i \in 1..Len(relay) :
      /\ relay[i].pc = "json"
      /\ relay[i].reply.json
      /\ RelayStep(i, Answered(relay[i], 200,
                       IF relay[i].reply.content.present
                       THEN relay[i].reply.content.text ELSE <<>>))

\* response.json() rejects (the body is not JSON): the catch block, line 317.
jsonRejected ==
    \E i \in 1..Len(relay) :
      /\ relay[i].pc = "json"
      /\ ~relay[i].reply.json
      /\ RelayStep(i, AnsweredError(relay[i], 500, "LLM failure"))

RelayNext ==
    \/ handler
    \/ fetchResolved
    \/ fetchRejected
    \/ jsonResolved
    \/ jsonRejected

\* The relay alone; the component stays as mounted.
RelayInit == InitWith(MaxCalls, MaxTicks, LiveEnv)

RelaySpec == RelayInit /\ [][RelayNext]_vars

\* ------------------------------------------------------------------ system
\* The component: every handler, callback and continuation of App.
Next ==
    \/ RenderBegin
    \/ RenderUpdate
    \/ RenderCommit
    \/ handleEnter
    \/ EnterTimeout
    \/ updateThoughts
    \/ handleSubmit
    \/ generateResolved
    \/ generateRejected
    \/ speakSettled
    \/ toggleListening
    \/ onstart
    \/ onresult
    \/ onerror
    \/ onend

Spec == Init /\ [][Next]_vars

\* The component with the recognizer's session state left out: a transcript
\* can arrive whenever the CHAT scene is shown.
CoreNext ==
    \/ RenderBegin
    \/ RenderUpdate
    \/ RenderCommit
    \/ handleEnter
    \/ EnterTimeout
    \/ updateThoughts
    \/ handleSubmit
    \/ generateResolved
    \/ generateRejected
    \/ speakSettled
    \/ transcript

StoreInit == InitWith(MaxStoreCalls, MaxStoreTicks, StoreEnv)

StoreSpec == StoreInit /\ [][CoreNext]_vars

\* The same component with blank texts among the inputs.
SubmitInit == InitWith(MaxSubmitCalls, MaxSubmitTicks, SubmitEnv)

SubmitSpec == SubmitInit /\ [][CoreNext]_vars

\* The same component under the scheduling the event loop gives: a promise
\* that settles has its continuation run, and a render React scheduled runs.
LiveInit == InitWith(MaxLiveCalls, MaxLiveTicks, LiveEnv)

LiveSpec ==
    /\ LiveInit
    /\ [][CoreNext]_vars
    /\ WF_vars(generateResolved \/ generateRejected)
    /\ WF_vars(speakSettled)
    /\ WF_vars(RenderBegin)
    /\ WF_vars(RenderUpdate)
    /\ WF_vars(RenderCommit)

\* The component over its whole life: it can be unmounted at any moment.
SceneNext ==
    \/ CoreNext
    \/ unmount

SceneInit == InitWith(MaxSceneCalls, MaxSceneTicks, LiveEnv)

SceneSpec == SceneInit /\ [][SceneNext]_vars

\* The same component in a small window, over more animation frames.
DriftInit == InitWith(MaxDriftCalls, MaxDriftTicks, DriftEnv)

DriftSpec == DriftInit /\ [][CoreNext]_vars

\* ------------------------------------------------------------------ claims
\* A step in which a render applies a queued updater of addThought.
RenderInsertStep ==
    /\ rendering
    /\ queue # <<>>
    /\ Head(queue).kind = "insert"
    /\ queue' = Tail(queue)

\* A step in which addThought's updater runs at the setThoughts call itself.
EagerInsertStep ==
    /\ ~rendering
    /\ queue = <<>>
    /\ ticksLeft' = ticksLeft
    /\ thoughtsRef' # thoughtsRef

\* Every array the program holds or has queued for the state.
AllStores ==
    { thoughts, thoughtsRef } \cup
    { queue[i].value : i \in { j \in 1..Len(queue) : queue[j].kind = "set" } }

\* C1: after any sequence of insertions interleaved with ticks the store
\* (the state array, thoughtsRef.current, every array queued for the state)
\* holds at most MAX_THOUGHTS thoughts, and the step that applies an
\* insertion leaves the inserted thought first in the state array and in
\* thoughtsRef.current.
C1_CapAndNewestFirst ==
    /\ [](\A s \in AllStores : Len(s) <= MAX_THOUGHTS)
    /\ [][ /\ RenderInsertStep =>
                /\ thoughts' # <<>> /\ Head(thoughts') = Head(queue).thought
                /\ thoughtsRef' # <<>> /\ Head(thoughtsRef') = Head(queue).thought
           /\ EagerInsertStep =>
                /\ thoughtsRef' # <<>>
                /\ Head(thoughtsRef').id \notin Ids(thoughtsRef) \cup Ids(thoughts)
                /\ \E i \in 1..Len(calls) :
                     calls[i].pc = "gen" /\ calls[i].n = Head(thoughtsRef').id
         ]_vars

\* C1 witness: a full store whose first thought was inserted after a tick
\* updated the one behind it (a thought has opacity 0 until its first tick).
C1_Witness ==
    /\ Len(thoughtsRef) = MAX_THOUGHTS
    /\ thoughtsRef[1].opacity = 0
    /\ thoughtsRef[MAX_THOUGHTS].opacity # 0
    /\ thoughtsRef = thoughts

\* What push is to leave: the new thought, then the previous ones in their
\* order, without the last of them when the store was full.
PushExpected(prev, t) ==
    IF Len(prev) >= MAX_THOUGHTS
    THEN <<t>> \o SubSeq(prev, 1, MAX_THOUGHTS - 1)
    ELSE <<t>> \o prev

\* C2: an insertion into a full store removes exactly its last thought and
\* keeps the others, in order, behind the new one; an insertion into a store
\* below the cap removes nothing. The store an insertion is applied to is the
\* state array (the updater's prev); thoughtsRef.current is set to the result.
C2_EvictsOldestOnly ==
    [][ /\ RenderInsertStep =>
             /\ thoughts' = PushExpected(thoughts, Head(queue).thought)
             /\ thoughtsRef' = thoughts'
        /\ EagerInsertStep =>
             /\ \E j \in 1..Len(thoughtsRef') :
                  /\ thoughtsRef'[j].id \notin Ids(thoughts)
                  /\ thoughtsRef' = PushExpected(thoughts, thoughtsRef'[j])
             /\ queue' = << [ kind |-> "set", value |-> thoughtsRef' ] >>
      ]_vars

\* C2 witness: a render is about to apply an insertion to a full store.
C2_Witness ==
    /\ rendering
    /\ queue # <<>>
    /\ Head(queue).kind = "insert"
    /\ Len(thoughts) = MAX_THOUGHTS
    /\ Head(queue).thought.id \notin Ids(thoughts)

\* The thoughts pushed by a step: queued as an updater, or put into
\* thoughtsRef.current by an updater run at the call.
PushedNow ==
    { queue'[i].thought :
        i \in { j \in (Len(queue) + 1)..Len(queue') : queue'[j].kind = "insert" } }
    \cup (IF EagerInsertStep
          THEN { thoughtsRef'[i] :
                   i \in { j \in 1..Len(thoughtsRef') :
                             thoughtsRef'[j].id \notin Ids(thoughts) } }
          ELSE {})

\* The numbers of the invocations that have not returned.
InFlight == { calls[i].n : i \in 1..Len(calls) }
InFlightNext == { calls'[i].n : i \in 1..Len(calls') }

\* C3: a submit that arrives while an accepted submit has not returned to
\* Idle is dropped, from the form and from a transcript event alike: no step
\* taken while an utterance is in flight and the busy flag is shown starts a
\* generation call.
C3_SubmitWhileBusyDropped ==
    [][ (calls # <<>> /\ isProcessing /\ rendered.isProcessing)
          => (callsLeft' = callsLeft /\ InFlightNext \subseteq InFlight) ]_vars

\* C4: a submit whose text is blank is a no-op in every state: the store is
\* unchanged, no generation call is made, the busy flag is not set.
C4_BlankSubmitNoOp ==
    [][ blankSubmit' # "none"
          => /\ UNCHANGED << thoughts, queue, thoughtsRef >>
             /\ UNCHANGED << calls, callsLeft >>
             /\ isProcessing' = isProcessing ]_vars

\* C4 witness: a blank transcript and a blank typed submit were handled, the
\* former while an utterance was in flight.
C4_Witness ==
    \/ blankSubmit = "voice" /\ calls # <<>> /\ isProcessing
    \/ blankSubmit = "text" /\ calls = <<>> /\ ~isProcessing /\ callsLeft = 0

\* C5: every accepted submit pushes a user thought carrying the raw input
\* text at once, before the generation call settles.
C5_UserThoughtPushedAtAccept ==
    [][ \A i \in 1..Len(calls') :
          calls'[i].n \notin InFlight
            => \E t \in PushedNow : t.text = calls'[i].text ]_vars

\* C6: after one accepted typed submit whose generation call succeeded with
\* r (and nothing else submitted), the store holds the response thought with
\* text r in front of the user thought with the submitted text, and isBusy is
\* false.
C6_TypedSubmitGainsUserThenResponse ==
    ( /\ callsLeft = MaxCalls - 1
      /\ calls = <<>>
      /\ ~rendering
      /\ ~renderPending
      /\ thoughts # <<>>
      /\ thoughts[1].method = "text" )
    => /\ ~isProcessing
       /\ Len(thoughts) = 2
       /\ thoughts[1].text \in env.responses
       /\ \E text \in env.inputs : Accepts(text, FALSE) /\ thoughts[2].text = text

\* C7: when the generation call of an accepted submit fails, a response
\* thought (the fallback) is pushed and isBusy returns to false: every step
\* in which an invocation returns from awaiting generateThought, or goes on
\* to speak, pushes exactly one thought.
C7_FailurePushesFallback ==
    [][ \A i \in 1..Len(calls) :
          ( calls[i].pc = "gen" /\
            \A j \in 1..Len(calls') : ~(calls'[j].n = calls[i].n /\ calls'[j].pc = "gen") )
            => Cardinality(PushedNow) = 1 ]_vars

\* An invocation returns in this step.
Returns(n) == n \in InFlight /\ n \notin InFlightNext

\* The orchestrator is Idle and the committed render shows it: a non-blank
\* typed submit gets past the guard.
IdleShown ==
    /\ ~isProcessing
    /\ ~rendering
    /\ \A text \in env.inputs : ~IsBlank(text) => Accepts(text, RenderedIsProcessing)

\* C8: provided the generation call and the voice-output call settle, every
\* accepted submit returns, on every branch, and isBusy is false when it
\* does; from a busy state the orchestrator comes to show Idle, where a
\* non-blank submit is accepted.
C8_ReturnsToIdle ==
    /\ \A n \in 1..MaxLiveCalls : (n \in InFlight) ~> (n \notin InFlight)
    /\ [][ \A n \in 1..MaxLiveCalls : Returns(n) => ~isProcessing' ]_vars
    /\ isProcessing ~> IdleShown

\* C8 witness: the committed render shows busy for a second typed submit,
\* accepted after the first accepted submit returned.
C8_Witness ==
    /\ callsLeft = MaxLiveCalls - 2
    /\ Len(calls) = 1
    /\ calls[1].mode = "text"
    /\ rendered.isProcessing
    /\ isProcessing

\* C9: no thought with an empty or white-space-only text is ever in the
\* store.
C9_NoBlankThought ==
    /\ \A s \in AllStores : \A i \in 1..Len(s) : ~IsBlank(s[i].text)
    /\ \A i \in 1..Len(queue) :
         queue[i].kind = "insert" => ~IsBlank(queue[i].thought.text)

\* C10: in spoken mode every settled generation call, a failed one with its
\* fallback included, has its response thought pushed and its text handed to
\* speakThought; in typed mode speakThought is never called.
C10_SpokenResponseForwarded ==
    /\ [][ \A i \in 1..Len(calls) :
             ( calls[i].mode = "voice" /\ calls[i].pc = "gen" /\
               \A j \in 1..Len(calls') :
                 ~(calls'[j].n = calls[i].n /\ calls'[j].pc = "gen") )
               => \E j \in 1..Len(calls') :
                    /\ calls'[j].n = calls[i].n
                    /\ calls'[j].pc = "speak"
                    /\ \E t \in PushedNow : t.text = calls'[j].response ]_vars
    /\ [](\A i \in 1..Len(calls) : calls[i].pc = "speak" => calls[i].mode = "voice")

\* ------------------------------------------------------------------ drift, decay
\* The floor of baseFade, Math.max(0.45, ...), and full opacity, in 1/120000.
OpacityFloor == 54000
OpacityFull == 120000

\* C11: in every reachable state every thought in the store (the state
\* array, thoughtsRef.current, the arrays queued for the state, the thoughts
\* queued for insertion) has its opacity in [floor, 1], from the moment it
\* is inserted.
C11_OpacityWithinFloorAndOne ==
    /\ \A s \in AllStores : \A i \in 1..Len(s) :
         s[i].opacity >= OpacityFloor /\ s[i].opacity <= OpacityFull
    /\ \A i \in 1..Len(queue) :
         queue[i].kind = "insert"
           => /\ queue[i].thought.opacity >= OpacityFloor
              /\ queue[i].thought.opacity <= OpacityFull

\* The band of the claim: 180 px from the left, the right and the top, 300 px
\* from the bottom.
InBandX(x) == x >= 180 * 16 /\ x <= viewport.w * 16 - 180 * 16
InBandY(y) == y >= 180 * 16 /\ y <= viewport.h * 16 - 300 * 16

\* The window is large enough for the spawn point to lie inside the band.
SpawnInBand == InBandX(viewport.w * 8) /\ InBandY(viewport.h * 8 - 80 * 16)

\* C12: for a fixed viewport (one whose spawn point is inside the band),
\* after any number of ticks every thought's position is inside the band:
\* reflection never lets it overshoot a margin.
C12_PositionWithinBand ==
    SpawnInBand
      => \A s \in AllStores : \A i \in 1..Len(s) :
           InBandX(s[i].x) /\ InBandY(s[i].y)

\* A step that is an animation tick.
TickStep == ticksLeft' = ticksLeft - 1

\* The tick negates the x (y) velocity of the i-th thought of the working store.
NegatedX(i) == thoughtsRef[i].vx # 0 /\ thoughtsRef'[i].vx = -thoughtsRef[i].vx
NegatedY(i) == thoughtsRef[i].vy # 0 /\ thoughtsRef'[i].vy = -thoughtsRef[i].vy

\* C13: a tick negates a velocity component only when the position crosses a
\* margin (it was inside the band before the tick), and after a negation the
\* next position is inside the band again, so that the next tick does not
\* negate the component again; also for a thought spawned on or outside a
\* margin.
C13_ReflectsOnCrossingOnly ==
    [][ TickStep =>
          \A i \in 1..Len(thoughtsRef) :
            /\ NegatedX(i) =>
                  /\ InBandX(thoughtsRef[i].x)
                  /\ InBandX(thoughtsRef'[i].x + thoughtsRef'[i].vx)
            /\ NegatedY(i) =>
                  /\ InBandY(thoughtsRef[i].y)
                  /\ InBandY(thoughtsRef'[i].y + thoughtsRef'[i].vy)
      ]_vars

\* The age at which the claim has the opacity at the floor: the divisor of
\* `age / 120000`, in ms.
DecayWindow == 120000

\* A thought a tick has set the opacity of (addThought builds it with 0).
Faded(t) == t.opacity # 0

\* C14: over the life of a thought, across ticks and insertions of newer
\* thoughts, its opacity never increases, and once its age has reached the
\* decay window its opacity is the floor, at every store index, the first
\* included. (The thought is followed from its first tick on.)
C14_OpacityDecays ==
    /\ [][ \A i \in 1..Len(thoughtsRef) : \A j \in 1..Len(thoughtsRef') :
             ( thoughtsRef'[j].id = thoughtsRef[i].id /\ Faded(thoughtsRef[i]) )
               => thoughtsRef'[j].opacity <= thoughtsRef[i].opacity ]_vars
    /\ [](\A i \in 1..Len(thoughtsRef) :
             ( Faded(thoughtsRef[i]) /\ now - thoughtsRef[i].createdAt >= DecayWindow )
               => thoughtsRef[i].opacity = OpacityFloor)

\* ------------------------------------------------------------------ tick, frames
\* C15: a tick updates every thought of the working store exactly once, in
\* store order: the result has the same thoughts in the same order, each with
\* its id, text, createdAt, scale and method unchanged, moved by one step of
\* its velocity, its velocity kept or negated, its opacity set; that result
\* is what the tick publishes.
C15_TickUpdatesEachOnce ==
    [][ TickStep =>
          /\ Len(thoughtsRef') = Len(thoughtsRef)
          /\ \A i \in 1..Len(thoughtsRef) :
               LET a == thoughtsRef[i]
                   b == thoughtsRef'[i]
               IN /\ b.id = a.id
                  /\ b.text = a.text
                  /\ b.createdAt = a.createdAt
                  /\ b.scale = a.scale
                  /\ b.method = a.method
                  /\ b.x = a.x + a.vx
                  /\ b.y = a.y + a.vy
                  /\ b.vx \in { a.vx, -a.vx }
                  /\ b.vy \in { a.vy, -a.vy }
                  /\ b.opacity >= OpacityFloor /\ b.opacity <= OpacityFull
          /\ Len(queue') = Len(queue) + 1
          /\ queue'[Len(queue')] = [ kind |-> "set", value |-> thoughtsRef' ]
      ]_vars

\* C15 witness: a tick has just updated and published a store of two thoughts.
C15_Witness ==
    /\ ticksLeft = MaxSceneTicks - 1
    /\ Len(thoughtsRef) = 2
    /\ \A i \in 1..2 : Faded(thoughtsRef[i])
    /\ thoughtsRef[1].id # thoughtsRef[2].id
    /\ queue # <<>>
    /\ queue[Len(queue)] = [ kind |-> "set", value |-> thoughtsRef ]

\* C17: an animation frame is requested only while the mounted component
\* shows the CHAT scene, and then exactly one is pending, the one
\* requestRef.current names; a tick requests exactly one successor; the
\* unmount cancels the pending frame, so that no tick runs afterwards.
C17_TickOnlyInChat ==
    /\ [](rafPending # {} => (mounted /\ scene = "CHAT" /\ rendered.scene = "CHAT"))
    /\ [](Cardinality(rafPending) <= 1)
    /\ []((mounted /\ rendered.scene = "CHAT") => rafPending = {requestRef})
    /\ [][ TickStep =>
             /\ mounted /\ rendered.scene = "CHAT"
             /\ rafPending = {requestRef}
             /\ Cardinality(rafPending') = 1
             /\ rafPending' = {requestRef'}
             /\ requestRef' # requestRef ]_vars
    /\ [][ ~mounted => ~TickStep ]_vars

\* C17 witness: the component was unmounted in the CHAT scene after its
\* ticks had run; the frame requested by the last tick is no longer pending.
C17_Witness ==
    /\ ~mounted
    /\ rendered.scene = "CHAT"
    /\ ticksLeft = 0
    /\ requestRef # 0
    /\ rafPending = {}

\* The ids of a sequence of thoughts, in order.
IdSeq(s) == [ i \in 1..Len(s) |-> s[i].id ]

\* Every requested state update has been applied and rendered.
Settled == ~rendering /\ ~renderPending /\ queue = <<>>

\* C16: no insertion is lost or reverted by an interleaved tick: once the
\* updates requested by addThought and by the ticks have been applied, the
\* published sequence (the state array) and the working store
\* (thoughtsRef.current) hold the same thoughts in the same order, the
\* inserted thought among them.
C16_InsertionSurvivesTick ==
    Settled => IdSeq(thoughts) = IdSeq(thoughtsRef)

\* ------------------------------------------------------------------ speech capture
\* A click on the microphone button now runs toggleListening with a closure
\* whose isListening is false: it takes the start() branch.
ToggleWouldStart ==
    /\ mounted
    /\ ~rendering
    /\ rendered.scene = "CHAT"
    /\ ~rendered.isListening

\* C18: toggleListening never calls start() while a session is started or
\* starting: in every state in which a click takes the start() branch, the
\* recognizer has no session started or starting.
C18_StartGuardedByCaller ==
    ToggleWouldStart => recState \notin { "starting", "listening" }

\* ------------------------------------------------------------------ relay answers
\* The provider call of request r failed: a transport failure, or an error
\* reply (an HTTP status that is not 2xx).
ProviderFailed(r) == r.failed \/ (r.pc \in { "json", "done" } /\ r.called /\ ~r.failed /\ ~r.reply.ok)

\* C19: a non-POST request is answered 405 and causes no provider call; a
\* POST whose provider call failed (transport failure or error reply) is
\* answered with a 5xx status and an error payload, never 200; 200 is
\* answered only when the provider call produced output, with the text "" when
\* that output is empty.
C19_RelayAnswers ==
    \A i \in 1..Len(relay) :
      LET r == relay[i] IN
        /\ r.method # "POST" => (r.pc = "done" /\ r.status = 405 /\ ~r.called)
        /\ (r.pc = "done" /\ r.method = "POST") =>
              /\ ProviderFailed(r) => (r.status >= 500 /\ r.status <= 599 /\ r.error # "")
              /\ r.status = 200 =>
                    /\ r.reply.ok /\ r.reply.json
                    /\ r.text = (IF r.reply.content.present
                                  THEN r.reply.content.text ELSE <<>>)

====
